---- MODULE Spec2Model ----
(***************************************************************************)
(* Verification model of WaveSource (src/Tsunami_Marigram.py): the         *)
(* allow-list resolvers, the resume ledger and the batch writer of main(). *)
(* Text is modelled as a sequence of one-character strings.                *)
(***************************************************************************)
EXTENDS Integers, Sequences, FiniteSets, TLC

VARIABLES
    args,           \* arguments of the pure function under check
    ret,            \* its return value, NoRet before the call
    pc,             \* position of the process running main(), see the actions
    resume,         \* args.resume of the current run
    interactive,    \* args.interactive of the current run
    image_items,    \* number of enumerated items; the file ids are 1..image_items
    processed,      \* the set load_processed_ids returned at startup
    i,              \* index of the for loop of main() (0 before the loop)
    rows_to_write,  \* the output buffer
    ledger,         \* the progress log file, a sequence of entries
    xlsx,           \* the data rows of the tabular output store
    cache,          \* file ids that have a file under cache_dir
    partial,        \* file ids whose cache file was left by a failed download
    flushes,        \* history: sizes of the successful flushes of this run
    events,         \* history: per file id, what this run did with it
    log_len0,       \* history: length of the ledger when this run started
    faults,         \* number of failures and terminations injected so far
    runs            \* number of runs started so far

vars == <<args, ret, pc, resume, interactive, image_items, processed, i,
          rows_to_write, ledger, xlsx, cache, partial, flushes, events,
          log_len0, faults, runs>>

runVars == <<pc, resume, interactive, image_items, processed, i, rows_to_write,
             ledger, xlsx, cache, partial, flushes, events, log_len0, faults,
             runs>>

(***************************************************************************)
(* Bounds of the model.                                                    *)
(***************************************************************************)
MaxLen == 3         \* longest candidate text of the allow-list checks
MaxVocab == 2       \* largest vocabulary of the allow-list checks
MaxParts == 3       \* most fragments concatenated into an OCR text
MaxOverrides == 1   \* most fields overridden in one interactive review
MaxItems == 51      \* most enumerated items of a run in which nothing fails
NumItems == 26      \* enumerated items of the runs in which operations fail
MaxFaults == 1      \* most failures and terminations injected in one behaviour
MaxRuns == 2        \* most runs started over the same ledger and output store
MaxPieces == 5      \* most fragments concatenated into the text the parser reads
MaxPages == 2       \* most pages of the locations collection
RetryItems == 2     \* enumerated items of the runs in which single attempts fail

(***************************************************************************)
(* Characters and strings.                                                 *)
(***************************************************************************)
NoRet == [called |-> FALSE]

Digits == {"0", "1", "2", "3", "4", "5", "6", "7", "8", "9"}

LowerLetters ==
    <<"a", "b", "c", "d", "e", "f", "g", "h", "i", "j", "k", "l", "m",
      "n", "o", "p", "q", "r", "s", "t", "u", "v", "w", "x", "y", "z">>

UpperLetters ==
    <<"A", "B", "C", "D", "E", "F", "G", "H", "I", "J", "K", "L", "M",
      "N", "O", "P", "Q", "R", "S", "T", "U", "V", "W", "X", "Y", "Z">>

LowerCase == {LowerLetters[k] : k \in DOMAIN LowerLetters}

UpperCase == {UpperLetters[k] : k \in DOMAIN UpperLetters}

\* the whitespace of str.strip() and of \s among the characters of the model;
\* NBSP stands for U+00A0, ZWSP (no whitespace) for U+200B
IsSpace(c) == c \in {" ", "\t", "\n", "\r", "\f", "NBSP"}

IsDigit(c) == c \in Digits

IsAlpha(c) == c \in LowerCase \cup UpperCase

IsAlnum(c) == c \in Digits \cup LowerCase \cup UpperCase

\* \w of the re module
IsWord(c) == IsAlnum(c) \/ c = "_"

\* str.upper() on the letters
UpperOf ==
    [c \in LowerCase |->
        UpperLetters[CHOOSE k \in DOMAIN LowerLetters : LowerLetters[k] = c]]

UpperChar(c) == IF c \in LowerCase THEN UpperOf[c] ELSE c

\* str.upper()
Upper(s) == [k \in 1..Len(s) |-> UpperChar(s[k])]

\* str.strip(): drops leading and trailing whitespace
RECURSIVE strip(_)
strip(s) ==
    IF s = <<>> THEN <<>>
    ELSE IF IsSpace(Head(s)) THEN strip(Tail(s))
    ELSE IF IsSpace(s[Len(s)]) THEN strip(SubSeq(s, 1, Len(s) - 1))
    ELSE s

\* _upper(s): (s or "").strip().upper()
_upper(s) == Upper(strip(s))

\* all texts over the alphabet cs of length at most n
RECURSIVE StringsUpTo(_, _)
StringsUpTo(cs, n) ==
    IF n = 0 THEN {<<>>}
    ELSE LET shorter == StringsUpTo(cs, n - 1)
         IN  shorter \cup {Append(s, c) : s \in shorter, c \in cs}

\* the sets with at most n members of S
SubsetsUpTo(S, n) == {T \in SUBSET S : Cardinality(T) <= n}

(***************************************************************************)
(* validate_against_allow_list: returns (kept_value, needs_review).        *)
(***************************************************************************)
\* the membership test of line 253 dropped: every candidate is accepted
validate_no_membership_test(value, allow) ==
    IF value = <<>> \/ strip(value) = <<>> THEN <<(<<>>), TRUE>>
    ELSE <<_upper(value), FALSE>>

validate_against_allow_list(value, allow) ==
    IF value = <<>> \/ strip(value) = <<>> THEN <<(<<>>), TRUE>>
    ELSE LET v == _upper(value)
         IN  IF v \in allow THEN <<v, FALSE>>
             ELSE <<strip(value), TRUE>>

(***************************************************************************)
(* parse_region_code_strict: the two re.search calls, leftmost match.      *)
(***************************************************************************)
\* start positions where \[(\d{2})\] matches
BracketMatches(t) ==
    {k \in 1..(Len(t) - 3) :
        /\ t[k] = "["
        /\ IsDigit(t[k + 1])
        /\ IsDigit(t[k + 2])
        /\ t[k + 3] = "]"}

\* \b between t[k-1] and t[k]
WordBoundary(t, k) ==
    LET before == k > 1 /\ k - 1 <= Len(t) /\ IsWord(t[k - 1])
        after  == k >= 1 /\ k <= Len(t) /\ IsWord(t[k])
    IN  before # after

\* position of the first digit at or after k, Len(t) + 1 when there is none
FirstDigitFrom(t, k) ==
    LET ds == {j \in k..Len(t) : IsDigit(t[j])}
    IN  IF ds = {} THEN Len(t) + 1 ELSE CHOOSE j \in ds : \A j2 \in ds : j <= j2

\* start positions where \bREGION\b[^0-9]*(\d{2})\b matches under re.I
RegionWordMatches(t) ==
    {k \in 1..(Len(t) - 5) :
        /\ WordBoundary(t, k)
        /\ Upper(SubSeq(t, k, k + 5)) = <<"R", "E", "G", "I", "O", "N">>
        /\ WordBoundary(t, k + 6)
        /\ LET d == FirstDigitFrom(t, k + 6)
           IN  /\ d + 1 <= Len(t)
               /\ IsDigit(t[d + 1])
               /\ WordBoundary(t, d + 2)}

Leftmost(S) == CHOOSE k \in S : \A k2 \in S : k <= k2

\* the bracket pattern accepted without the look-up in the region map
parse_region_code_unchecked(ocr_text, regions_map) ==
    IF ocr_text = <<>> THEN <<(<<>>), TRUE>>
    ELSE IF BracketMatches(ocr_text) # {}
         THEN <<SubSeq(ocr_text, Leftmost(BracketMatches(ocr_text)) + 1,
                       Leftmost(BracketMatches(ocr_text)) + 2), FALSE>>
         ELSE <<(<<>>), TRUE>>

parse_region_code_strict(ocr_text, regions_map) ==
    IF ocr_text = <<>> THEN <<(<<>>), TRUE>>
    ELSE
      LET bm == BracketMatches(ocr_text)
          g1 == IF bm = {} THEN <<>>
                ELSE SubSeq(ocr_text, Leftmost(bm) + 1, Leftmost(bm) + 2)
          rm == RegionWordMatches(ocr_text)
          d  == IF rm = {} THEN 0 ELSE FirstDigitFrom(ocr_text, Leftmost(rm) + 6)
          g2 == IF rm = {} THEN <<>> ELSE SubSeq(ocr_text, d, d + 1)
      IN  IF bm # {} /\ g1 \in DOMAIN regions_map THEN <<g1, FALSE>>
          ELSE IF rm # {} /\ g2 \in DOMAIN regions_map THEN <<g2, FALSE>>
          ELSE <<(<<>>), TRUE>>

(***************************************************************************)
(* resolve_location_short_strict and IOC_CODE_RE.                          *)
(***************************************************************************)
IocCodeMinLen == 3

IocCodeMaxLen == 6

\* IOC_CODE_RE.match(code): ^[A-Za-z0-9]{3,6}$
IOC_CODE_RE(code) ==
    /\ Len(code) >= IocCodeMinLen
    /\ Len(code) <= IocCodeMaxLen
    /\ \A k \in 1..Len(code) : IsAlnum(code[k])

resolve_location_short_strict(country, location, ioc_index) ==
    IF DOMAIN ioc_index = {} \/ country = <<>> \/ location = <<>>
    THEN <<(<<>>), TRUE>>
    ELSE LET key  == <<_upper(country), _upper(location)>>
             code == IF key \in DOMAIN ioc_index THEN ioc_index[key] ELSE <<>>
         IN  IF code # <<>> /\ IOC_CODE_RE(code) THEN <<code, FALSE>>
             ELSE <<(<<>>), TRUE>>

(***************************************************************************)
(* The character classes of the patterns.                                  *)
(***************************************************************************)
\* [ \t]
IsBlank(c) == c \in {" ", "\t"}

\* the line boundaries of str.splitlines() among the characters of the model
IsLineBreak(c) == c \in {"\n", "\r", "\f"}

IsNoLineBreak(c) == ~IsLineBreak(c)

\* [:\-\s]
IsLabelSeparator(c) == c \in {":", "-"} \/ IsSpace(c)

\* [A-Z .,'()&/-] under re.I, with the digits for STATE and LOCATION
IsLabelValueChar(c) ==
    IsAlpha(c) \/ c \in {" ", ".", ",", "'", "(", ")", "&", "/", "-"}

IsLabelValueOrDigit(c) == IsLabelValueChar(c) \/ IsDigit(c)

\* the character classes of the patterns, by name
InClass(class, c) ==
    CASE class = "IsSpace" -> IsSpace(c)
      [] class = "IsAlpha" -> IsAlpha(c)
      [] class = "IsDigit" -> IsDigit(c)
      [] class = "IsBlank" -> IsBlank(c)
      [] class = "IsNoLineBreak" -> IsNoLineBreak(c)
      [] class = "IsLabelSeparator" -> IsLabelSeparator(c)
      [] class = "IsLabelValueChar" -> IsLabelValueChar(c)
      [] class = "IsLabelValueOrDigit" -> IsLabelValueOrDigit(c)

(***************************************************************************)
(* normalize_date_to_ymd and parse_scale: DATE_PATTERNS and SCALE_PATTERNS *)
(* matched character by character, re.search taking the leftmost match.    *)
(***************************************************************************)
\* the character at position k, "" outside the text
At(t, k) == IF k >= 1 /\ k <= Len(t) THEN t[k] ELSE ""

\* the first position at or after p whose character fails the test
SkipWhile(t, p, class) ==
    LET stops == {j \in p..Len(t) : ~InClass(class, t[j])}
    IN  IF stops = {} THEN Len(t) + 1 ELSE CHOOSE j \in stops : \A j2 \in stops : j <= j2

\* (19\d{2}|20\d{2}) at k
YearAt(t, k) ==
    /\ \/ At(t, k) = "1" /\ At(t, k + 1) = "9"
       \/ At(t, k) = "2" /\ At(t, k + 1) = "0"
    /\ IsDigit(At(t, k + 2))
    /\ IsDigit(At(t, k + 3))

\* 0[1-9]|1[0-2] at k
Month2At(t, k) ==
    \/ At(t, k) = "0" /\ At(t, k + 1) \in Digits \ {"0"}
    \/ At(t, k) = "1" /\ At(t, k + 1) \in {"0", "1", "2"}

\* 0[1-9]|[12]\d|3[01] at k
Day2At(t, k) ==
    \/ At(t, k) = "0" /\ At(t, k + 1) \in Digits \ {"0"}
    \/ At(t, k) \in {"1", "2"} /\ IsDigit(At(t, k + 1))
    \/ At(t, k) = "3" /\ At(t, k + 1) \in {"0", "1"}

\* (0?[1-9]|1[0-2]) at k taking n characters
MonthAt(t, k, n) ==
    \/ n = 1 /\ At(t, k) \in Digits \ {"0"}
    \/ n = 2 /\ Month2At(t, k)

\* (0?[1-9]|[12]\d|3[01]) at k taking n characters
DayAt(t, k, n) ==
    \/ n = 1 /\ At(t, k) \in Digits \ {"0"}
    \/ n = 2 /\ Day2At(t, k)

\* str.zfill(2)
Zfill2(s) == IF Len(s) < 2 THEN <<"0">> \o s ELSE s

\* DATE_PATTERNS[0]: start positions of (?<!\d)y-m-d(?!\d)
IsoDateMatches(t) ==
    {k \in 1..Len(t) :
        /\ ~IsDigit(At(t, k - 1))
        /\ YearAt(t, k)
        /\ At(t, k + 4) = "-"
        /\ Month2At(t, k + 5)
        /\ At(t, k + 7) = "-"
        /\ Day2At(t, k + 8)
        /\ ~IsDigit(At(t, k + 10))}

\* DATE_PATTERNS[1]: <<start, length of m, length of d>> of the matches of
\* (?<!\d)m[-/]d[-/]y(?!\d); the separator after m and d leaves one length
SlashDateMatches(t) ==
    {m \in (1..Len(t)) \X {1, 2} \X {1, 2} :
        LET k == m[1]
            d == k + m[2] + 1
            y == d + m[3] + 1
        IN  /\ ~IsDigit(At(t, k - 1))
            /\ MonthAt(t, k, m[2])
            /\ At(t, d - 1) \in {"-", "/"}
            /\ DayAt(t, d, m[3])
            /\ At(t, y - 1) \in {"-", "/"}
            /\ YearAt(t, y)
            /\ ~IsDigit(At(t, y + 4))}

\* the alternatives of (?P<mon>...); Sept is never the group, Sep comes first
MONTH_MAP ==
    [mon \in { <<"J", "A", "N">>, <<"F", "E", "B">>, <<"M", "A", "R">>,
               <<"A", "P", "R">>, <<"M", "A", "Y">>, <<"J", "U", "N">>,
               <<"J", "U", "L">>, <<"A", "U", "G">>, <<"S", "E", "P">>,
               <<"O", "C", "T">>, <<"N", "O", "V">>, <<"D", "E", "C">> } |->
        CASE mon = <<"J", "A", "N">> -> <<"0", "1">>
          [] mon = <<"F", "E", "B">> -> <<"0", "2">>
          [] mon = <<"M", "A", "R">> -> <<"0", "3">>
          [] mon = <<"A", "P", "R">> -> <<"0", "4">>
          [] mon = <<"M", "A", "Y">> -> <<"0", "5">>
          [] mon = <<"J", "U", "N">> -> <<"0", "6">>
          [] mon = <<"J", "U", "L">> -> <<"0", "7">>
          [] mon = <<"A", "U", "G">> -> <<"0", "8">>
          [] mon = <<"S", "E", "P">> -> <<"0", "9">>
          [] mon = <<"O", "C", "T">> -> <<"1", "0">>
          [] mon = <<"N", "O", "V">> -> <<"1", "1">>
          [] mon = <<"D", "E", "C">> -> <<"1", "2">>]

\* DATE_PATTERNS[2]: <<start, length of d>> of the matches of
\* (?<!\w)d\s+Mon[a-z]*\s+y(?!\w) under re.I
MonthNameDateMatches(t) ==
    {m \in (1..Len(t)) \X {1, 2} :
        LET k   == m[1]
            s1  == k + m[2]
            mon == SkipWhile(t, s1, "IsSpace")
            s2  == SkipWhile(t, mon + 3, "IsAlpha")
            y   == SkipWhile(t, s2, "IsSpace")
        IN  /\ ~IsWord(At(t, k - 1))
            /\ DayAt(t, k, m[2])
            /\ mon > s1
            /\ mon + 2 <= Len(t)
            /\ Upper(SubSeq(t, mon, mon + 2)) \in DOMAIN MONTH_MAP
            /\ y > s2
            /\ YearAt(t, y)
            /\ ~IsWord(At(t, y + 4))}

\* the match with the leftmost start
LeftmostMatch(S) == CHOOSE m \in S : \A m2 \in S : m[1] <= m2[1]

normalize_date_to_ymd(text) ==
    IF IsoDateMatches(text) # {}
    THEN LET k == Leftmost(IsoDateMatches(text))
         IN  SubSeq(text, k, k + 3) \o <<"/">> \o SubSeq(text, k + 5, k + 6)
                \o <<"/">> \o SubSeq(text, k + 8, k + 9)
    ELSE IF SlashDateMatches(text) # {}
    THEN LET m == LeftmostMatch(SlashDateMatches(text))
             d == m[1] + m[2] + 1
             y == d + m[3] + 1
         IN  SubSeq(text, y, y + 3) \o <<"/">>
                \o Zfill2(SubSeq(text, m[1], m[1] + m[2] - 1)) \o <<"/">>
                \o Zfill2(SubSeq(text, d, d + m[3] - 1))
    ELSE IF MonthNameDateMatches(text) # {}
    THEN LET m   == LeftmostMatch(MonthNameDateMatches(text))
             mon == SkipWhile(text, m[1] + m[2], "IsSpace")
             y   == SkipWhile(text, SkipWhile(text, mon + 3, "IsAlpha"), "IsSpace")
         IN  SubSeq(text, y, y + 3) \o <<"/">>
                \o MONTH_MAP[Upper(SubSeq(text, mon, mon + 2))] \o <<"/">>
                \o Zfill2(SubSeq(text, m[1], m[1] + m[2] - 1))
    ELSE <<>>

\* start positions of 1\s*[:/]\s*\d{1,4}.  The optional group
\* (?:SCALE\s*[:=]?\s*)? only moves the start of a match to the left: it
\* holds no "1", so the leftmost match ends in the leftmost of these.
ScaleMatches(t) ==
    {k \in 1..Len(t) :
        LET sep == SkipWhile(t, k + 1, "IsSpace")
        IN  /\ t[k] = "1"
            /\ At(t, sep) \in {":", "/"}
            /\ IsDigit(At(t, SkipWhile(t, sep + 1, "IsSpace")))}

parse_scale(text) ==
    IF ScaleMatches(text) = {} THEN <<>>
    ELSE LET k    == Leftmost(ScaleMatches(text))
             den  == SkipWhile(text, SkipWhile(text, k + 1, "IsSpace") + 1, "IsSpace")
             stop == SkipWhile(text, den, "IsDigit")
             last == IF stop - den > 4 THEN den + 3 ELSE stop - 1
         IN  <<"1", ":">> \o SubSeq(text, den, last)

(***************************************************************************)
(* The OCR of one rendering, ocr_image and _ocr_avg_conf.  The engine is   *)
(* external; what its three calls do for a rendering is an input:          *)
(*   string    [raises, text]            image_to_string                   *)
(*   dataframe [raises, has_conf, conf]  image_to_data, Output.DATAFRAME   *)
(*   dict      [raises, conf]            image_to_data, Output.DICT        *)
(* conf is the column of confidences, each entry [numeric, value] with     *)
(* numeric false when float() rejects it.  An average is kept exact, as    *)
(* the pair [sum, count].                                                  *)
(***************************************************************************)
Mean(sum, count) == [sum |-> sum, count |-> count]

\* 0.0
ZeroConf == Mean(0, 1)

\* a > b and a == b on averages
ConfGreater(a, b) == a.sum * b.count > b.sum * a.count

ConfEqual(a, b) == a.sum * b.count = b.sum * a.count

RECURSIVE SumOfValues(_)
SumOfValues(entries) ==
    IF entries = <<>> THEN 0 ELSE Head(entries).value + SumOfValues(Tail(entries))

\* the loops of lines 407-414 and 426-432, then the return of 415 and 433
MeanOfValidConfs(column) ==
    LET confs == SelectSeq(column, LAMBDA e : e.numeric /\ e.value >= 0)
    IN  IF confs = <<>> THEN ZeroConf ELSE Mean(SumOfValues(confs), Len(confs))

_ocr_avg_conf(engine) ==
    IF ~engine.dataframe.raises
    THEN MeanOfValidConfs(IF engine.dataframe.has_conf
                          THEN engine.dataframe.conf ELSE <<>>)
    ELSE IF ~engine.dict.raises THEN MeanOfValidConfs(engine.dict.conf)
    ELSE ZeroConf

ocr_image(engine) ==
    [text |-> IF engine.string.raises THEN <<>> ELSE engine.string.text,
     conf |-> _ocr_avg_conf(engine)]

(***************************************************************************)
(* _anchor_score and best_ocr_from_variants.                               *)
(***************************************************************************)
OCR_ANCHORS ==
    { <<"C", "O", "U", "N", "T", "R", "Y">>, <<"S", "T", "A", "T", "E">>,
      <<"L", "O", "C", "A", "T", "I", "O", "N">>, <<"S", "C", "A", "L", "E">>,
      <<"R", "E", "G", "I", "O", "N">> }

\* re.search(r"\bWORD\b", t)
AnchorFound(t, word) ==
    \E k \in 1..(Len(t) - Len(word) + 1) :
        /\ SubSeq(t, k, k + Len(word) - 1) = word
        /\ WordBoundary(t, k)
        /\ WordBoundary(t, k + Len(word))

_anchor_score(text) ==
    IF text = <<>> THEN 0
    ELSE LET t == Upper(text)
         IN  Cardinality({word \in OCR_ANCHORS : AnchorFound(t, word)})
                + (IF normalize_date_to_ymd(t) # <<>> THEN 2 ELSE 0)
                + (IF parse_scale(t) # <<>> THEN 1 ELSE 0)

\* the renderings of preprocess_variants, in the order they are appended
Renderings == <<"otsu", "otsu_inverted", "adaptive", "clahe_otsu", "blur_otsu">>

\* the test of line 490 with >= for the text length: a later rendering with
\* the same triple replaces the earlier one
IsBetterOrSame(anc, conf, text, best) ==
    \/ anc > best.best_anchor
    \/ anc = best.best_anchor /\ ConfGreater(conf, best.best_conf)
    \/ /\ anc = best.best_anchor
       /\ ConfEqual(conf, best.best_conf)
       /\ Len(text) >= Len(best.best_text)

\* the test of line 490
IsBetter(anc, conf, text, best) ==
    \/ anc > best.best_anchor
    \/ anc = best.best_anchor /\ ConfGreater(conf, best.best_conf)
    \/ /\ anc = best.best_anchor
       /\ ConfEqual(conf, best.best_conf)
       /\ Len(text) > Len(best.best_text)

\* lines 481-484: nothing seen yet; best_variant is the position of the
\* rendering in the list, 0 for the image itself
NoBest ==
    [best_text |-> <<>>, best_conf |-> Mean(-1, 1), best_variant |-> 0,
     best_anchor |-> -1]

\* lines 487-491 for rendering k, whose OCR gave out
KeepBest(best, k, out) ==
    LET anc == _anchor_score(out.text)
    IN  IF IsBetter(anc, out.conf, out.text, best)
        THEN [best_text |-> out.text, best_conf |-> out.conf,
              best_variant |-> k, best_anchor |-> anc]
        ELSE best

(***************************************************************************)
(* sanitize_text and the line list of process_one_image, lines 754-755.    *)
(* ZWSP, ZWNJ and ZWJ stand for U+200B, U+200C and U+200D.                 *)
(***************************************************************************)
\* lines 162-163: form feed to space, zero-width marks removed
RECURSIVE ReplaceAndRemove(_)
ReplaceAndRemove(text) ==
    IF text = <<>> THEN <<>>
    ELSE IF Head(text) = "\f" THEN <<" ">> \o ReplaceAndRemove(Tail(text))
    ELSE IF Head(text) \in {"ZWSP", "ZWNJ", "ZWJ"} THEN ReplaceAndRemove(Tail(text))
    ELSE <<Head(text)>> \o ReplaceAndRemove(Tail(text))

\* line 164: re.sub(r"[ \t]+", " ", text)
RECURSIVE CollapseBlanks(_)
CollapseBlanks(text) ==
    IF text = <<>> THEN <<>>
    ELSE IF IsBlank(Head(text))
         THEN <<" ">> \o CollapseBlanks(SubSeq(text, SkipWhile(text, 1, "IsBlank"),
                                               Len(text)))
         ELSE <<Head(text)>> \o CollapseBlanks(Tail(text))

sanitize_text(text) == CollapseBlanks(ReplaceAndRemove(text))

\* str.splitlines(); the empty lines it gives between \r and \n or at the end
\* are dropped by the filter of line 755
RECURSIVE splitlines(_)
splitlines(text) ==
    IF text = <<>> THEN <<>>
    ELSE LET stop == SkipWhile(text, 1, "IsNoLineBreak")
         IN  <<SubSeq(text, 1, stop - 1)>>
                \o splitlines(SubSeq(text, stop + 1, Len(text)))

\* line 755: [ln.strip() for ln in text.splitlines() if ln.strip()]
StrippedLines(text) ==
    LET all  == splitlines(text)
        kept == SelectSeq(all, LAMBDA ln : strip(ln) # <<>>)
    IN  [k \in 1..Len(kept) |-> strip(kept[k])]

(***************************************************************************)
(* parse_country_state_location: strategies A, B and C.                    *)
(***************************************************************************)
\* [A-Z\- .'()&/], with the digits and the comma for the third group
InGroupClass(c, third) ==
    \/ c \in UpperCase
    \/ c \in {"-", " ", ".", "'", "(", ")", "&", "/"}
    \/ third /\ (IsDigit(c) \/ c = ",")

\* t[from..to] is [A-Z][class]+ (the third group: [A-Z0-9][class]+)
IsGroup(t, from, to, third) ==
    /\ to > from
    /\ to <= Len(t)
    /\ t[from] \in UpperCase \/ (third /\ IsDigit(t[from]))
    /\ \A j \in (from + 1)..to : InGroupClass(t[j], third)

\* t[from..to-1] is \s{2,}
IsGap(t, from, to) ==
    /\ to - from >= 2
    /\ \A j \in from..(to - 1) : IsSpace(t[j])

\* where the third group can start so that it ends the line
Group3Starts(t) == {d \in 1..Len(t) : IsGroup(t, d, Len(t), TRUE)}

\* where the second group, started at b, can end so that the rest matches
Group2Ends(t, b) ==
    {c \in (b + 1)..Len(t) :
        /\ IsGroup(t, b, c, FALSE)
        /\ \E d \in Group3Starts(t) : IsGap(t, c + 1, d)}

\* where the second group can start after a first group ending at a
Group2Starts(t, a) ==
    {b \in (a + 3)..Len(t) : IsGap(t, a + 1, b) /\ Group2Ends(t, b) # {}}

\* where the first group can end so that the rest matches
Group1Ends(t) ==
    {a \in 2..Len(t) : IsGroup(t, 1, a, FALSE) /\ Group2Starts(t, a) # {}}

Smallest(S) == CHOOSE k \in S : \A k2 \in S : k <= k2

Largest(S) == CHOOSE k \in S : \A k2 \in S : k >= k2

\* UPPER_TRIPLE_SPLIT.match(line): the empty tuple for no match, else the
\* three groups the backtracking finds first: the lazy groups as short and
\* the greedy gaps as long as a match allows
UPPER_TRIPLE_SPLIT(line) ==
    IF Group1Ends(line) = {} THEN <<>>
    ELSE LET a == Smallest(Group1Ends(line))
             b == Largest(Group2Starts(line, a))
             c == Smallest(Group2Ends(line, b))
             d == Largest({e \in Group3Starts(line) : IsGap(line, c + 1, e)})
         IN  <<SubSeq(line, 1, a), SubSeq(line, b, c), SubSeq(line, d, Len(line))>>

\* where a match of \s*[;,\t]\s* starting at s has its delimiter, 0 for no
\* match: after the whitespace a semicolon or comma, else the last tab of it
DelimiterAt(t, s) ==
    LET w    == SkipWhile(t, s, "IsSpace")
        tabs == {j \in s..(w - 1) : t[j] = "\t"}
    IN  IF At(t, w) \in {";", ","} THEN w
        ELSE IF tabs # {} THEN Largest(tabs)
        ELSE 0

\* re.split(r"\s*[;,\t]\s*", t) from position p on
RECURSIVE SplitFrom(_, _)
SplitFrom(t, p) ==
    LET starts == {s \in p..Len(t) : DelimiterAt(t, s) # 0}
    IN  IF starts = {} THEN <<SubSeq(t, p, Len(t))>>
        ELSE LET s == Smallest(starts)
             IN  <<SubSeq(t, p, s - 1)>>
                    \o SplitFrom(t, SkipWhile(t, DelimiterAt(t, s) + 1, "IsSpace"))

_looks_like_text(s) == Cardinality({k \in 1..Len(s) : IsAlpha(s[k])}) >= 2

\* the first k entries of a list
FirstOf(lines, k) == SubSeq(lines, 1, IF Len(lines) < k THEN Len(lines) ELSE k)

\* "\n".join(lines)
RECURSIVE JoinLines(_)
JoinLines(lines) ==
    IF lines = <<>> THEN <<>>
    ELSE IF Len(lines) = 1 THEN lines[1]
    ELSE lines[1] \o <<"\n">> \o JoinLines(Tail(lines))

\* where the group of LABEL[:\-\s]+(class+) starts for the label at k, 0 for
\* no match: the separators are greedy and give back what the group needs
LabelValueStart(blob, label, k, class) ==
    LET sep  == k + Len(label)
        stop == SkipWhile(blob, sep, "IsLabelSeparator")
        from == {p \in (sep + 1)..stop : p <= Len(blob) /\ InClass(class, blob[p])}
    IN  IF Upper(SubSeq(blob, k, sep - 1)) = label /\ from # {}
        THEN Largest(from) ELSE 0

\* m.group(1).strip() if m else "" for re.search(LABEL[:\-\s]+(class+), blob, re.I)
LabelValue(blob, label, class) ==
    LET starts == {k \in 1..(Len(blob) - Len(label) + 1) :
                      LabelValueStart(blob, label, k, class) # 0}
    IN  IF starts = {} THEN <<>>
        ELSE LET p == LabelValueStart(blob, label, Smallest(starts), class)
             IN  strip(SubSeq(blob, p, SkipWhile(blob, p, class) - 1))

\* the lines strategies A, B and C look at: lines[:20], lines[:30], lines[:80]
LinesOfA == 20

LinesOfB == 30

LinesOfC == 80

\* the three strategies, each on the stripped lines it looks at
StrategyA(lines) ==
    LET hits == {k \in 1..Len(FirstOf(lines, LinesOfA)) :
                    UPPER_TRIPLE_SPLIT(strip(lines[k])) # <<>>}
    IN  IF hits = {} THEN <<>>
        ELSE LET m == UPPER_TRIPLE_SPLIT(strip(lines[Smallest(hits)]))
             IN  <<strip(m[1]), strip(m[2]), strip(m[3])>>

StrategyB(lines) ==
    LET parts(k) == SplitFrom(strip(lines[k]), 1)
        hits == {k \in 1..Len(FirstOf(lines, LinesOfB)) :
                    /\ Len(parts(k)) >= 3
                    /\ \A j \in 1..3 : _looks_like_text(strip(parts(k)[j]))}
    IN  IF hits = {} THEN <<>>
        ELSE LET p == parts(Smallest(hits))
             IN  <<strip(p[1]), strip(p[2]), strip(p[3])>>

StrategyC(lines) ==
    LET blob == JoinLines(FirstOf(lines, LinesOfC))
    IN  <<LabelValue(blob, <<"C", "O", "U", "N", "T", "R", "Y">>, "IsLabelValueChar"),
          LabelValue(blob, <<"S", "T", "A", "T", "E">>, "IsLabelValueOrDigit"),
          LabelValue(blob, <<"L", "O", "C", "A", "T", "I", "O", "N">>,
                     "IsLabelValueOrDigit")>>

parse_country_state_location(lines) ==
    IF StrategyA(lines) # <<>> THEN StrategyA(lines)
    ELSE IF StrategyB(lines) # <<>> THEN StrategyB(lines)
    ELSE StrategyC(lines)

\* lines 754-758 of process_one_image: from the OCR text to the candidates
ParseCandidates(ocr_text) ==
    parse_country_state_location(StrippedLines(sanitize_text(ocr_text)))

(***************************************************************************)
(* process_one_image, lines 762-836: the resolvers applied to the parsed   *)
(* candidates, the Row built from them and the interactive review.  inp    *)
(* holds the parsed candidates and the reference data, typed the text      *)
(* entered at each prompt (empty for Enter), yes the final answer.         *)
(***************************************************************************)
\* prompt_field: Enter keeps the current value, anything else replaces it
prompt_field(current, typed_text) ==
    IF strip(typed_text) = <<>> THEN current ELSE strip(typed_text)

ReviewFields == {"COUNTRY", "STATE", "LOCATION", "REGION_CODE", "LOCATION_SHORT"}

\* one value per column, in the order of the Row(...) call of lines 786-800
FieldValues(country, state, location, region_code, location_short) ==
    [f \in ReviewFields |->
        CASE f = "COUNTRY" -> country
          [] f = "STATE" -> state
          [] f = "LOCATION" -> location
          [] f = "REGION_CODE" -> region_code
          [] f = "LOCATION_SHORT" -> location_short]

process_one_image(inp, is_interactive, typed, yes) ==
    LET c  == validate_against_allow_list(inp.country_ocr, inp.countries)
        st == validate_against_allow_list(inp.state_ocr, inp.states)
        l  == validate_against_allow_list(inp.location_ocr, inp.locations)
        r  == parse_region_code_strict(inp.text_clean, inp.regions_map)
        ls == resolve_location_short_strict(c[1], l[1], inp.ioc_index)
        computed == FieldValues(c[1], st[1], l[1], r[1], ls[1])
        flags == FieldValues(c[2], st[2], l[2], r[2], ls[2])
        reviewed == [f \in ReviewFields |-> prompt_field(computed[f], typed[f])]
    IN  IF ~is_interactive
        THEN [raised |-> FALSE, row |-> computed, flags |-> flags,
              computed |-> computed]
        ELSE IF yes
        THEN [raised |-> FALSE, row |-> reviewed, flags |-> flags,
              computed |-> computed]
        ELSE [raised |-> TRUE, flags |-> flags, computed |-> computed]

(***************************************************************************)
(* Inputs of the resolver checks.                                          *)
(***************************************************************************)
AllowChars == {"a", "A", " "}

\* the reference vocabularies hold _upper(description), lines 230-240
Normalized(S) == {_upper(s) : s \in S}

Candidates == StringsUpTo(AllowChars, MaxLen)

Vocabularies == SubsetsUpTo(Normalized(Candidates), MaxVocab)

RegionFragments ==
    { <<"[", "1", "1", "]">>, <<"[", "2", "2", "]">>, <<"[", "2", "]">>,
      <<"R", "E", "G", "I", "O", "N">>, <<"r", "e", "g", "i", "o", "n">>,
      <<" ">>, <<"2", "2">>, <<"1">>, <<"x">> }

RECURSIVE Concatenations(_, _)
Concatenations(frags, n) ==
    IF n = 0 THEN {<<>>}
    ELSE LET shorter == Concatenations(frags, n - 1)
         IN  shorter \cup {s \o f : s \in shorter, f \in frags}

RegionTexts == Concatenations(RegionFragments, MaxParts)

RegionKeys == {<<"1", "1">>, <<"2", "2">>, <<"2", "1">>}

\* the region maps: code -> description, lines 232
RegionMaps == {[k \in K |-> "description"] : K \in SUBSET RegionKeys}

\* the station indexes: (COUNTRY_UPPER, LOCATION_UPPER) -> code, lines 328-342
StationKeys ==
    { <<(<<"A">>), (<<"A">>)>>, <<(<<"A", "A">>), (<<"A">>)>> }

StationCodes == { <<"a", "b", "1">>, <<"a", "b">>, <<"a", "-", "b", "1">> }

StationIndexes ==
    {<<>>} \cup {[k \in {key} |-> code] : key \in StationKeys, code \in StationCodes}

ShortCandidates == {s \in Candidates : Len(s) < MaxLen}

ProcessInputs ==
    [country_ocr : ShortCandidates,
     state_ocr : {<<>>, <<"a">>},
     location_ocr : ShortCandidates,
     text_clean : {<<>>, <<"[", "1", "1", "]">>},
     countries : SubsetsUpTo({<<"A">>}, MaxVocab),
     states : {{<<"A">>}},
     locations : SubsetsUpTo({<<"A">>}, MaxVocab),
     regions_map : {[k \in {<<"1", "1">>} |-> "description"]},
     ioc_index : StationIndexes]

\* what the operator types at the prompts of one review
ReviewInputs ==
    {typed \in [ReviewFields -> {<<>>, <<"x">>}] :
        Cardinality({f \in ReviewFields : typed[f] # <<>>}) <= MaxOverrides}

(***************************************************************************)
(* Specifications of the resolver checks: Init draws the arguments, the    *)
(* action applies the function.  main() is not running in them.            *)
(***************************************************************************)
MainNotRunning ==
    /\ pc = "off"
    /\ resume = FALSE
    /\ interactive = FALSE
    /\ image_items = 0
    /\ processed = {}
    /\ i = 0
    /\ rows_to_write = <<>>
    /\ ledger = <<>>
    /\ xlsx = <<>>
    /\ cache = {}
    /\ partial = {}
    /\ flushes = <<>>
    /\ events = <<>>
    /\ log_len0 = 0
    /\ faults = 0
    /\ runs = 0

InitAllow ==
    /\ args \in [value : Candidates, allow : Vocabularies]
    /\ ret = NoRet
    /\ MainNotRunning

CallValidate ==
    /\ ~ret.called
    /\ ret' = [called |-> TRUE,
               out |-> validate_against_allow_list(args.value, args.allow)]
    /\ UNCHANGED <<args, runVars>>

NextAllow == CallValidate

SpecAllow == InitAllow /\ [][NextAllow]_vars

InitRegion ==
    /\ args \in [ocr_text : RegionTexts, regions_map : RegionMaps]
    /\ ret = NoRet
    /\ MainNotRunning

CallParseRegion ==
    /\ ~ret.called
    /\ ret' = [called |-> TRUE,
               out |-> parse_region_code_strict(args.ocr_text, args.regions_map)]
    /\ UNCHANGED <<args, runVars>>

NextRegion == CallParseRegion

SpecRegion == InitRegion /\ [][NextRegion]_vars

InitProcess ==
    /\ args \in ProcessInputs
    /\ ret = NoRet
    /\ MainNotRunning

CallProcessOneImage ==
    /\ ~ret.called
    /\ \E is_interactive \in BOOLEAN, typed \in ReviewInputs, yes \in BOOLEAN :
          /\ ~is_interactive =>
                (yes /\ \A f \in ReviewFields : typed[f] = <<>>)
          /\ ret' = [called |-> TRUE, interactive |-> is_interactive,
                     out |-> process_one_image(args, is_interactive, typed, yes)]
    /\ UNCHANGED <<args, runVars>>

NextProcess == CallProcessOneImage

SpecProcess == InitProcess /\ [][NextProcess]_vars

(***************************************************************************)
(* The Variant Scorer check: what the engine does for a rendering is       *)
(* chosen when the loop of best_ocr_from_variants comes to it.             *)
(***************************************************************************)
Confidence(v) == [numeric |-> TRUE, value |-> v]

\* an entry float() rejects
NotANumber == [numeric |-> FALSE, value |-> 0]

StringOutcomes ==
    { [raises |-> TRUE, text |-> <<>>],
      [raises |-> FALSE, text |-> <<"S", "c", "a", "l", "e", " ", "1", ":", "5">>],
      [raises |-> FALSE,
       text |-> <<"2", "0", "2", "1", "-", "0", "3", "-", "1", "1">>] }

\* the DATAFRAME call returns the column; it raises and the DICT call
\* returns a column with entries that are skipped; both raise
DataOutcomes ==
    { [dataframe |-> [raises |-> FALSE, has_conf |-> TRUE,
                      conf |-> <<Confidence(90)>>],
       dict |-> [raises |-> TRUE, conf |-> <<>>]],
      [dataframe |-> [raises |-> TRUE, has_conf |-> FALSE, conf |-> <<>>],
       dict |-> [raises |-> FALSE,
                 conf |-> <<Confidence(-1), NotANumber, Confidence(40),
                            Confidence(61)>>]],
      [dataframe |-> [raises |-> TRUE, has_conf |-> FALSE, conf |-> <<>>],
       dict |-> [raises |-> TRUE, conf |-> <<>>]] }

EngineOutcomes ==
    {[string |-> s, dataframe |-> d.dataframe, dict |-> d.dict] :
        s \in StringOutcomes, d \in DataOutcomes}

\* best_ocr_from_variants is entered: ret holds the locals of its loop, k
\* the renderings done; engines, ocr and anchors keep, for each of them, what
\* the engine did and what lines 487 and 488 computed
InitVariants ==
    /\ args = [fn |-> "best_ocr_from_variants"]
    /\ ret = [called |-> FALSE, k |-> 0, out |-> NoBest, engines |-> <<>>,
              ocr |-> <<>>, anchors |-> <<>>]
    /\ MainNotRunning

\* lines 486-491: the next rendering is read and compared with the best
OcrNextRendering ==
    /\ ~ret.called
    /\ ret.k < Len(Renderings)
    /\ \E engine \in EngineOutcomes :
          LET out == ocr_image(engine)
          IN  ret' = [called |-> FALSE,
                      k |-> ret.k + 1,
                      out |-> KeepBest(ret.out, ret.k + 1, out),
                      engines |-> Append(ret.engines, engine),
                      ocr |-> Append(ret.ocr, out),
                      anchors |-> Append(ret.anchors, _anchor_score(out.text))]
    /\ UNCHANGED <<args, runVars>>

\* line 493
ReturnBest ==
    /\ ~ret.called
    /\ ret.k = Len(Renderings)
    /\ ret' = [ret EXCEPT !.called = TRUE]
    /\ UNCHANGED <<args, runVars>>

NextVariants == OcrNextRendering \/ ReturnBest

SpecVariants == InitVariants /\ [][NextVariants]_vars

(***************************************************************************)
(* The Field Parser check: the OCR text is put together from words, gaps,  *)
(* line breaks, delimiters and a label.                                    *)
(***************************************************************************)
OcrFragments ==
    { <<"A", "B">>, <<"C", "1">>, <<" ">>, <<" ", " ">>, <<"\n">>, <<";">>,
      <<"S", "t", "a", "t", "e", ":">> }

OcrTexts == Concatenations(OcrFragments, MaxPieces)

InitParse ==
    /\ args \in [ocr_text : OcrTexts]
    /\ ret = NoRet
    /\ MainNotRunning

\* lines 754-758
CallParseCandidates ==
    /\ ~ret.called
    /\ ret' = [called |-> TRUE, out |-> ParseCandidates(args.ocr_text)]
    /\ UNCHANGED <<args, runVars>>

NextParse == CallParseCandidates

SpecParse == InitParse /\ [][NextParse]_vars

(***************************************************************************)
(* C8: validate_against_allow_list returns review flag false only with a   *)
(* value that is a member of the vocabulary; a returned value outside the  *)
(* vocabulary, the empty string of a blank candidate included, carries     *)
(* review flag true.                                                       *)
(***************************************************************************)
AllowListNeverUnflaggedOutsideVocabulary ==
    ret.called =>
        /\ (ret.out[2] = FALSE => ret.out[1] \in args.allow)
        /\ (ret.out[1] \notin args.allow => ret.out[2] = TRUE)
        /\ (strip(args.value) = <<>> => ret.out = <<(<<>>), TRUE>>)

\* a candidate in lower case or padded was accepted in its normalised form
AllowListAcceptedNormalised ==
    /\ ret.called
    /\ ret.out[2] = FALSE
    /\ ret.out[1] # args.value
    /\ ret.out[1] \in args.allow

(***************************************************************************)
(* C14: for a non-blank candidate whose upper-cased trimmed form is not in *)
(* the vocabulary, validate_against_allow_list returns the candidate text  *)
(* as it was given, leading and trailing whitespace and letter case        *)
(* included, with review flag true.                                        *)
(***************************************************************************)
RejectedCandidateReturnedUnmodified ==
    (ret.called /\ strip(args.value) # <<>> /\ _upper(args.value) \notin args.allow) =>
        ret.out = <<args.value, TRUE>>

\* t holds the text f somewhere
Contains(t, f) == \E k \in 1..(Len(t) - Len(f) + 1) : SubSeq(t, k, k + Len(f) - 1) = f

Code22 == <<"2", "2">>

Bracket22 == <<"[", "2", "2", "]">>

\* the two-digit codes the bracket pattern can match in t
BracketCodes(t) == {SubSeq(t, k + 1, k + 2) : k \in BracketMatches(t)}

\* the parts of the claim about every text: a code is returned only if it is
\* a key of the Region Map, and the flag is false exactly with a code
RegionCodeOnlyFromMap ==
    /\ (ret.out[1] # <<>> => ret.out[1] \in DOMAIN args.regions_map)
    /\ (ret.out[2] = FALSE <=> ret.out[1] # <<>>)

\* [22] in the text, "22" not a key, and neither pattern matches anything else
Only22Matches ==
    /\ Contains(args.ocr_text, Bracket22)
    /\ Code22 \notin DOMAIN args.regions_map
    /\ BracketCodes(args.ocr_text) = {Code22}
    /\ RegionWordMatches(args.ocr_text) = {}

(***************************************************************************)
(* C9 as stated: parse_region_code_strict returns a non-empty code only if *)
(* it is a key of the Region Map, flag false exactly when the code is      *)
(* non-empty, and for every text containing [22] the result is ("22",      *)
(* false) when "22" is a key, ("", true) when it is not and no other       *)
(* pattern matches.                                                        *)
(***************************************************************************)
RegionCodeAnyText22 ==
    ret.called =>
        /\ RegionCodeOnlyFromMap
        /\ (Contains(args.ocr_text, Bracket22) /\ Code22 \in DOMAIN args.regions_map
                => ret.out = <<Code22, FALSE>>)
        /\ (Only22Matches => ret.out = <<(<<>>), TRUE>>)

\* the leftmost match of the bracket pattern in the text is [22]
FirstBracketIs22 ==
    LET bm == BracketMatches(args.ocr_text)
    IN  IF bm = {} THEN FALSE
        ELSE SubSeq(args.ocr_text, Leftmost(bm), Leftmost(bm) + 3) = Bracket22

(***************************************************************************)
(* C9 amended: as above, but the result is ("22", false) for a text whose  *)
(* first bracketed two-digit code is [22] when "22" is a key; a text that  *)
(* holds another bracketed code before [22] is decided by that first code. *)
(* "No other pattern matches" is read as: the bracket pattern matches no   *)
(* other code and the REGION pattern matches nothing.                      *)
(***************************************************************************)
RegionCodeFirstBracket22 ==
    ret.called =>
        /\ RegionCodeOnlyFromMap
        /\ (FirstBracketIs22 /\ Code22 \in DOMAIN args.regions_map
                => ret.out = <<Code22, FALSE>>)
        /\ (Only22Matches => ret.out = <<(<<>>), TRUE>>)

\* [22] comes first, another bracketed code follows, and 22 was returned
RegionFirstOfTwoBracketsReturned ==
    /\ ret.called
    /\ Cardinality(BracketCodes(args.ocr_text)) = 2
    /\ ret.out = <<Code22, FALSE>>

(***************************************************************************)
(* C10: the LOCATION_SHORT computed for a record is non-empty only if the  *)
(* country and the location of the station look-up both passed allow-list  *)
(* validation (review flag false for both).                                *)
(***************************************************************************)
LocationShortOnlyFromConfirmed ==
    ret.called =>
        (ret.out.computed["LOCATION_SHORT"] # <<>> =>
            /\ ret.out.flags["COUNTRY"] = FALSE
            /\ ret.out.flags["LOCATION"] = FALSE)

\* the value is the empty string or a member of the vocabulary
EmptyOrMember(value, allow) == value = <<>> \/ value \in allow

(***************************************************************************)
(* C11: in the record a non-interactive run gets from process_one_image    *)
(* (the one line 956 puts into the buffer and lines 970/980 into the       *)
(* output store) COUNTRY, STATE and LOCATION are each the empty string or  *)
(* a member of the matching Reference Vocabulary; a value whose review     *)
(* flag is true is not in the record.                                      *)
(***************************************************************************)
NonInteractiveRecordHoldsOnlyValidated ==
    (ret.called /\ ~ret.interactive) =>
        /\ EmptyOrMember(ret.out.row["COUNTRY"], args.countries)
        /\ EmptyOrMember(ret.out.row["STATE"], args.states)
        /\ EmptyOrMember(ret.out.row["LOCATION"], args.locations)
        /\ \A f \in {"COUNTRY", "STATE", "LOCATION"} :
              ret.out.flags[f] => ret.out.row[f] = <<>>

\* the triple of rendering k: anchor score, average confidence, text length
TripleOf(k) == <<ret.anchors[k], ret.ocr[k].conf, Len(ret.ocr[k].text)>>

\* a comes after b in the lexicographic order of the triples
TripleGreater(a, b) ==
    \/ a[1] > b[1]
    \/ a[1] = b[1] /\ ConfGreater(a[2], b[2])
    \/ a[1] = b[1] /\ ConfEqual(a[2], b[2]) /\ a[3] > b[3]

(***************************************************************************)
(* C12: best_ocr_from_variants returns the rendering whose triple (anchor  *)
(* score, average confidence, text length) is lexicographically greatest,  *)
(* and of the renderings with that triple the first of the list: no        *)
(* rendering has a greater triple than the winner, every rendering before  *)
(* the winner has a smaller one, and the text, confidence and anchor score *)
(* returned are the winner's.                                              *)
(***************************************************************************)
WinnerIsFirstGreatestTriple ==
    ret.called =>
        LET w == ret.out.best_variant
        IN  /\ w \in DOMAIN Renderings
            /\ \A k \in DOMAIN Renderings : ~TripleGreater(TripleOf(k), TripleOf(w))
            /\ \A k \in 1..(w - 1) : TripleGreater(TripleOf(w), TripleOf(k))
            /\ ret.out.best_text = ret.ocr[w].text
            /\ ret.out.best_conf = ret.ocr[w].conf
            /\ ret.out.best_anchor = ret.anchors[w]

\* the winner is not the first rendering, and a later rendering has the same
\* triple
TieKeptFirstSeen ==
    /\ ret.called
    /\ ret.out.best_variant > 1
    /\ ret.out.best_anchor > 0
    /\ \E k \in DOMAIN Renderings :
          /\ k > ret.out.best_variant
          /\ ~TripleGreater(TripleOf(ret.out.best_variant), TripleOf(k))

(***************************************************************************)
(* C16: a rendering whose OCR fails contributes the empty text with        *)
(* confidence zero, never the empty text with a positive confidence;       *)
(* nothing is raised and the selection runs over all the renderings.       *)
(***************************************************************************)
FailedOcrIsEmptyTextZeroConfidence ==
    ret.called =>
        /\ \A k \in DOMAIN Renderings :
              ret.engines[k].string.raises =>
                  /\ ret.ocr[k].text = <<>>
                  /\ ConfEqual(ret.ocr[k].conf, ZeroConf)
        /\ ret.out.best_variant \in DOMAIN Renderings
        /\ \A k \in DOMAIN Renderings :
              ~TripleGreater(TripleOf(k), TripleOf(ret.out.best_variant))

\* the line has the tabular header layout: three groups the header pattern
\* accepts, set apart by gaps of two or more spaces
HasHeaderLayout(line) ==
    /\ UPPER_TRIPLE_SPLIT(line) # <<>>
    /\ \A k \in 1..Len(line) : IsSpace(line[k]) => line[k] = " "

\* the first of the first 20 non-empty lines of the OCR text with that layout,
\* 0 when none has it
FirstHeaderLine(ocr_text) ==
    LET lines == StrippedLines(ocr_text)
        hits  == {k \in 1..Len(FirstOf(lines, LinesOfA)) : HasHeaderLayout(lines[k])}
    IN  IF hits = {} THEN 0 ELSE Smallest(hits)

(***************************************************************************)
(* C15: when one of the first 20 non-empty lines of the chosen OCR text    *)
(* has the tabular header layout, the triplet the pipeline (normalizer,    *)
(* then field parser) extracts is the three parts of that line.            *)
(***************************************************************************)
HeaderLineGivesItsTriplet ==
    (ret.called /\ FirstHeaderLine(args.ocr_text) # 0) =>
        LET line == StrippedLines(args.ocr_text)[FirstHeaderLine(args.ocr_text)]
            m    == UPPER_TRIPLE_SPLIT(line)
        IN  ret.out = <<strip(m[1]), strip(m[2]), strip(m[3])>>

(***************************************************************************)
(* main(): one process runs the loop of lines 927-980 over the enumerated  *)
(* items.  The ledger, the output store and the download cache are files   *)
(* and outlive the process; rows_to_write and processed are its memory.    *)
(* append_log and append_rows_to_excel are taken as atomic: the entry or   *)
(* the batch is written whole or not at all.                               *)
(***************************************************************************)
\* the batch threshold of line 969
BatchSize == 25

NoArgs == [fn |-> "main"]

\* the Row of the item; FILE_NAME stands for all its columns
Row(file_id) == [FILE_NAME |-> file_id]

\* every entry counts, whatever its status
load_processed_ids_any_status(log) ==
    {log[k].file_id : k \in 1..Len(log)}

\* the ledger is not consulted
load_processed_ids_nothing(log) == {}

load_processed_ids(log) ==
    {log[k].file_id : k \in {j \in 1..Len(log) : log[j].status = "ok"}}

append_log(log, record) == Append(log, record)

append_rows_to_excel(sheet, rows) == sheet \o rows

\* the comparison of line 969 with > in place of >=
BatchFullOffByOne(rows) == Len(rows) > BatchSize

\* len(rows_to_write) >= 25
BatchFull(rows) == Len(rows) >= BatchSize

Running ==
    pc \in {"loop", "download", "process", "append", "log_ok", "flush", "clear",
            "log_error", "final_flush"}

Mark(file_id, tags) == [events EXCEPT ![file_id] = @ \cup tags]

InitMain(counts) ==
    /\ args = NoArgs
    /\ ret = NoRet
    /\ pc = "idle"
    /\ resume = FALSE
    /\ interactive = FALSE
    /\ image_items \in counts
    /\ processed = {}
    /\ i = 0
    /\ rows_to_write = <<>>
    /\ ledger = <<>>
    /\ xlsx = <<>>
    /\ cache = {}
    /\ partial = {}
    /\ flushes = <<>>
    /\ events = [id \in 1..image_items |-> {}]
    /\ log_len0 = 0
    /\ faults = 0
    /\ runs = 0

\* lines 910-925: a new process starts; the frontier is read when --resume is given
StartRun(with_resume, with_interactive, max_runs) ==
    /\ pc \in {"idle", "done", "crashed", "killed"}
    /\ runs < max_runs
    /\ runs' = runs + 1
    /\ resume' = with_resume
    /\ interactive' = with_interactive
    /\ processed' = IF with_resume THEN load_processed_ids(ledger) ELSE {}
    /\ rows_to_write' = <<>>
    /\ i' = 0
    /\ flushes' = <<>>
    /\ events' = [id \in 1..image_items |-> {}]
    /\ log_len0' = Len(ledger)
    /\ pc' = "loop"
    /\ UNCHANGED <<args, ret, image_items, ledger, xlsx, cache, partial, faults>>

\* lines 927-930 and 979: the next item, skipped when it is in the frontier
LoopNext ==
    /\ pc = "loop"
    /\ IF i = image_items
       THEN /\ pc' = "final_flush"
            /\ UNCHANGED <<i, events>>
       ELSE /\ i' = i + 1
            /\ IF resume /\ (i + 1) \in processed
               THEN /\ events' = Mark(i + 1, {"skip"})
                    /\ pc' = "loop"
               ELSE /\ events' = Mark(i + 1, {"try"})
                    /\ pc' = "download"
    /\ UNCHANGED <<args, ret, resume, interactive, image_items, processed,
                   rows_to_write, ledger, xlsx, cache, partial, flushes,
                   log_len0, faults, runs>>

\* lines 933-938: the file is in the cache, or its download succeeds
DownloadOrCached ==
    /\ pc = "download"
    /\ IF i \in cache
       THEN /\ events' = Mark(i, {"cached"})
            /\ UNCHANGED cache
       ELSE /\ events' = Mark(i, {"download"})
            /\ cache' = cache \cup {i}
    /\ pc' = "process"
    /\ UNCHANGED <<args, ret, resume, interactive, image_items, processed, i,
                   rows_to_write, ledger, xlsx, partial, flushes, log_len0,
                   faults, runs>>

\* lines 671-683: every retry of the download failed; the file opened for
\* writing at line 676 stays behind unless it could not be opened at all
DownloadFails ==
    /\ pc = "download"
    /\ i \notin cache
    /\ faults < MaxFaults
    /\ faults' = faults + 1
    /\ \E left_behind \in BOOLEAN :
          /\ cache' = IF left_behind THEN cache \cup {i} ELSE cache
          /\ partial' = IF left_behind THEN partial \cup {i} ELSE partial
    /\ events' = Mark(i, {"download", "raised"})
    /\ pc' = "log_error"
    /\ UNCHANGED <<args, ret, resume, interactive, image_items, processed, i,
                   rows_to_write, ledger, xlsx, flushes, log_len0, runs>>

\* lines 940-955: process_one_image returns the row
ProcessOk ==
    /\ pc = "process"
    /\ events' = Mark(i, {"process"})
    /\ pc' = "append"
    /\ UNCHANGED <<args, ret, resume, interactive, image_items, processed, i,
                   rows_to_write, ledger, xlsx, cache, partial, flushes,
                   log_len0, faults, runs>>

\* lines 745-746: process_one_image raises (unreadable image, OCR failure)
ProcessRaises ==
    /\ pc = "process"
    /\ faults < MaxFaults \/ i \in partial
    /\ faults' = IF i \in partial THEN faults ELSE faults + 1
    /\ events' = Mark(i, {"process", "raised"})
    /\ pc' = "log_error"
    /\ UNCHANGED <<args, ret, resume, interactive, image_items, processed, i,
                   rows_to_write, ledger, xlsx, cache, partial, flushes,
                   log_len0, runs>>

\* a no at the final confirmation handled as a yes: the row is returned
ReviewDeclinedRowKept ==
    /\ pc = "process"
    /\ interactive
    /\ faults < MaxFaults
    /\ faults' = faults + 1
    /\ events' = Mark(i, {"process", "declined"})
    /\ pc' = "append"
    /\ UNCHANGED <<args, ret, resume, interactive, image_items, processed, i,
                   rows_to_write, ledger, xlsx, cache, partial, flushes,
                   log_len0, runs>>

\* lines 833-834: the operator answers no, process_one_image raises
ReviewDeclined ==
    /\ pc = "process"
    /\ interactive
    /\ faults < MaxFaults
    /\ faults' = faults + 1
    /\ events' = Mark(i, {"process", "declined"})
    /\ pc' = "log_error"
    /\ UNCHANGED <<args, ret, resume, interactive, image_items, processed, i,
                   rows_to_write, ledger, xlsx, cache, partial, flushes,
                   log_len0, runs>>

\* line 956
AppendRow ==
    /\ pc = "append"
    /\ rows_to_write' = Append(rows_to_write, Row(i))
    /\ events' = Mark(i, {"append"})
    /\ pc' = "log_ok"
    /\ UNCHANGED <<args, ret, resume, interactive, image_items, processed, i,
                   ledger, xlsx, cache, partial, flushes, log_len0, faults, runs>>

\* lines 959-969
LogOk ==
    /\ pc = "log_ok"
    /\ ledger' = append_log(ledger, [file_id |-> i, status |-> "ok"])
    /\ events' = Mark(i, {"ok"})
    /\ pc' = IF BatchFull(rows_to_write) THEN "flush" ELSE "loop"
    /\ UNCHANGED <<args, ret, resume, interactive, image_items, processed, i,
                   rows_to_write, xlsx, cache, partial, flushes, log_len0,
                   faults, runs>>

\* line 970 returns
FlushOk ==
    /\ pc = "flush"
    /\ xlsx' = append_rows_to_excel(xlsx, rows_to_write)
    /\ flushes' = Append(flushes, Len(rows_to_write))
    /\ pc' = "clear"
    /\ UNCHANGED <<args, ret, resume, interactive, image_items, processed, i,
                   rows_to_write, ledger, cache, partial, events, log_len0,
                   faults, runs>>

\* line 970 raises: the except clause of line 974 takes over
FlushFails ==
    /\ pc = "flush"
    /\ faults < MaxFaults
    /\ faults' = faults + 1
    /\ events' = Mark(i, {"flush_failed"})
    /\ pc' = "log_error"
    /\ UNCHANGED <<args, ret, resume, interactive, image_items, processed, i,
                   rows_to_write, ledger, xlsx, cache, partial, flushes,
                   log_len0, runs>>

\* line 971
ClearBuffer ==
    /\ pc = "clear"
    /\ rows_to_write' = <<>>
    /\ pc' = "loop"
    /\ UNCHANGED <<args, ret, resume, interactive, image_items, processed, i,
                   ledger, xlsx, cache, partial, flushes, events, log_len0,
                   faults, runs>>

\* the except clause ends the run instead of going on with the loop
LogErrorAbortsRun ==
    /\ pc = "log_error"
    /\ ledger' = append_log(ledger, [file_id |-> i, status |-> "error"])
    /\ events' = Mark(i, {"error"})
    /\ pc' = "crashed"
    /\ rows_to_write' = <<>>
    /\ UNCHANGED <<args, ret, resume, interactive, image_items, processed, i,
                   xlsx, cache, partial, flushes, log_len0, faults, runs>>

\* lines 974-977
LogError ==
    /\ pc = "log_error"
    /\ ledger' = append_log(ledger, [file_id |-> i, status |-> "error"])
    /\ events' = Mark(i, {"error"})
    /\ pc' = "loop"
    /\ UNCHANGED <<args, ret, resume, interactive, image_items, processed, i,
                   rows_to_write, xlsx, cache, partial, flushes, log_len0,
                   faults, runs>>

\* lines 979-987: the last flush, when there is something to flush, returns
\* and the process ends; its memory is gone with it
FinalFlushOk ==
    /\ pc = "final_flush"
    /\ IF rows_to_write = <<>>
       THEN UNCHANGED <<xlsx, flushes>>
       ELSE /\ xlsx' = append_rows_to_excel(xlsx, rows_to_write)
            /\ flushes' = Append(flushes, Len(rows_to_write))
    /\ rows_to_write' = <<>>
    /\ pc' = "done"
    /\ UNCHANGED <<args, ret, resume, interactive, image_items, processed, i,
                   ledger, cache, partial, events, log_len0, faults, runs>>

\* line 980 raises outside any try: the process ends with the traceback
FinalFlushFails ==
    /\ pc = "final_flush"
    /\ rows_to_write # <<>>
    /\ faults < MaxFaults
    /\ faults' = faults + 1
    /\ rows_to_write' = <<>>
    /\ pc' = "crashed"
    /\ UNCHANGED <<args, ret, resume, interactive, image_items, processed, i,
                   ledger, xlsx, cache, partial, flushes, events, log_len0, runs>>

\* external termination of the process at any point of the run
Kill ==
    /\ Running
    /\ faults < MaxFaults
    /\ faults' = faults + 1
    /\ rows_to_write' = <<>>
    /\ pc' = "killed"
    /\ UNCHANGED <<args, ret, resume, interactive, image_items, processed, i,
                   ledger, xlsx, cache, partial, flushes, events, log_len0, runs>>

\* a KeyboardInterrupt or SystemExit comes up while the item is downloaded or
\* processed: it is no Exception, the except clause of line 974 lets it
\* through and main() is left with it
ItemInterrupted ==
    /\ pc \in {"download", "process"}
    /\ faults < MaxFaults
    /\ faults' = faults + 1
    /\ events' = Mark(i, {"fatal"})
    /\ rows_to_write' = <<>>
    /\ pc' = "crashed"
    /\ UNCHANGED <<args, ret, resume, interactive, image_items, processed, i,
                   ledger, xlsx, cache, partial, flushes, log_len0, runs>>

\* line 976 raises inside the except clause (the ledger cannot be written):
\* nothing handles it and main() is left with it
LogErrorFails ==
    /\ pc = "log_error"
    /\ events' = Mark(i, {"fatal"})
    /\ rows_to_write' = <<>>
    /\ pc' = "crashed"
    /\ UNCHANGED <<args, ret, resume, interactive, image_items, processed, i,
                   ledger, xlsx, cache, partial, flushes, log_len0, faults,
                   runs>>

(***************************************************************************)
(* SpecBatch: one run in which no operation fails, over 1..MaxItems items. *)
(***************************************************************************)
InitBatch == InitMain(1..MaxItems)

NextBatch ==
    \/ StartRun(FALSE, FALSE, 1)
    \/ LoopNext
    \/ DownloadOrCached
    \/ ProcessOk
    \/ AppendRow
    \/ LogOk
    \/ FlushOk
    \/ ClearBuffer
    \/ FinalFlushOk

SpecBatch == InitBatch /\ [][NextBatch]_vars

(***************************************************************************)
(* SpecRun: one run, interactive or not, in which downloads, processing    *)
(* and flushes may fail.                                                   *)
(***************************************************************************)
InitRun == InitMain({NumItems})

NextRun ==
    \/ \E ia \in BOOLEAN : StartRun(FALSE, ia, 1)
    \/ LoopNext
    \/ DownloadOrCached
    \/ DownloadFails
    \/ ProcessOk
    \/ ProcessRaises
    \/ ReviewDeclined
    \/ AppendRow
    \/ LogOk
    \/ FlushOk
    \/ FlushFails
    \/ ClearBuffer
    \/ LogError
    \/ FinalFlushOk
    \/ FinalFlushFails

SpecRun == InitRun /\ [][NextRun]_vars

(***************************************************************************)
(* SpecAbort: one run as in SpecRun in which, besides, an error of an item *)
(* may get past the except clause of line 974 and end the run.             *)
(***************************************************************************)
InitAbort == InitMain({NumItems})

NextAbort ==
    \/ \E ia \in BOOLEAN : StartRun(FALSE, ia, 1)
    \/ LoopNext
    \/ DownloadOrCached
    \/ DownloadFails
    \/ ProcessOk
    \/ ProcessRaises
    \/ ReviewDeclined
    \/ ItemInterrupted
    \/ AppendRow
    \/ LogOk
    \/ FlushOk
    \/ FlushFails
    \/ ClearBuffer
    \/ LogError
    \/ LogErrorFails
    \/ FinalFlushOk
    \/ FinalFlushFails

SpecAbort == InitAbort /\ [][NextAbort]_vars

(***************************************************************************)
(* The retry loops of _fetch_json and _drive_call_with_retry, one attempt  *)
(* at a time.  While main() is in such a call, and until the next one, ret *)
(* holds the locals of the loop: attempts made, attempts failed, and how   *)
(* the call ended; fetched counts the _fetch_json calls that returned.     *)
(***************************************************************************)
\* retries of _fetch_json, line 209
FetchRetries == 4

\* retries of _drive_call_with_retry, line 616
DriveRetries == 5

RetryCall(fn, retries, fetched) ==
    [fn |-> fn, retries |-> retries, attempts |-> 0, failed |-> 0,
     result |-> "pending", fetched |-> fetched]

\* range(retries) run one time too many
MayAttemptOnceMore(call) == call.result = "pending" /\ call.attempts <= call.retries

\* for i in range(retries): another attempt is made
MayAttempt(call) == call.result = "pending" /\ call.attempts < call.retries

\* the loop is over: the raise of lines 219 and 628
RetriesExhausted(call) == call.result = "pending" /\ call.attempts >= call.retries

AttemptReturned(call) ==
    [call EXCEPT !.attempts = @ + 1, !.result = "returned"]

AttemptFailed(call) ==
    [call EXCEPT !.attempts = @ + 1, !.failed = @ + 1]

\* the calls fetch_noaa_lists makes: countries, states, regions, page 1 of
\* the locations and the pages 2..totalPages, lines 226-239
FetchCalls(total_pages) == 4 + (IF total_pages > 1 THEN total_pages - 1 ELSE 0)

\* line 877: main() is in fetch_noaa_lists, in its first _fetch_json call;
\* the cache directory holds the files an earlier run downloaded
InitRetry ==
    /\ args \in [fn : {"main"}, total_pages : 0..MaxPages]
    /\ ret = RetryCall("_fetch_json", FetchRetries, 0)
    /\ pc = "fetch"
    /\ resume = FALSE
    /\ interactive = FALSE
    /\ image_items = RetryItems
    /\ processed = {}
    /\ i = 0
    /\ rows_to_write = <<>>
    /\ ledger = <<>>
    /\ xlsx = <<>>
    /\ cache \in SUBSET (1..RetryItems)
    /\ partial = {}
    /\ flushes = <<>>
    /\ events = [id \in 1..image_items |-> {}]
    /\ log_len0 = 0
    /\ faults = 0
    /\ runs = 0

\* lines 213-215: the request returns; the next call of fetch_noaa_lists
\* starts, or main() goes on after line 877
FetchAttemptOk ==
    /\ pc = "fetch"
    /\ MayAttempt(ret)
    /\ IF ret.fetched + 1 < FetchCalls(args.total_pages)
       THEN /\ ret' = RetryCall("_fetch_json", FetchRetries, ret.fetched + 1)
            /\ pc' = "fetch"
       ELSE /\ ret' = [AttemptReturned(ret) EXCEPT !.fetched = @ + 1]
            /\ pc' = "idle"
    /\ UNCHANGED <<args, resume, interactive, image_items, processed, i,
                   rows_to_write, ledger, xlsx, cache, partial, flushes, events,
                   log_len0, faults, runs>>

\* lines 216-218: the request fails and the loop sleeps
FetchAttemptFails ==
    /\ pc = "fetch"
    /\ MayAttempt(ret)
    /\ ret' = AttemptFailed(ret)
    /\ UNCHANGED <<args, pc, resume, interactive, image_items, processed, i,
                   rows_to_write, ledger, xlsx, cache, partial, flushes, events,
                   log_len0, faults, runs>>

\* line 219 raises; nothing between it and line 877 handles the error, the
\* process ends before the loop over the items
FetchGivesUp ==
    /\ pc = "fetch"
    /\ RetriesExhausted(ret)
    /\ ret' = [ret EXCEPT !.result = "raised"]
    /\ pc' = "fatal"
    /\ UNCHANGED <<args, resume, interactive, image_items, processed, i,
                   rows_to_write, ledger, xlsx, cache, partial, flushes, events,
                   log_len0, faults, runs>>

\* lines 933-938: the file is in the cache, or drive_download_file is called
CheckCache ==
    /\ pc = "download"
    /\ IF i \in cache
       THEN /\ events' = Mark(i, {"cached"})
            /\ pc' = "process"
            /\ UNCHANGED ret
       ELSE /\ events' = Mark(i, {"download"})
            /\ pc' = "downloading"
            /\ ret' = RetryCall("_drive_call_with_retry", DriveRetries, ret.fetched)
    /\ UNCHANGED <<args, resume, interactive, image_items, processed, i,
                   rows_to_write, ledger, xlsx, cache, partial, flushes,
                   log_len0, faults, runs>>

\* lines 620 and 674-681: _call_download returns
DownloadAttemptOk ==
    /\ pc = "downloading"
    /\ MayAttempt(ret)
    /\ ret' = AttemptReturned(ret)
    /\ cache' = cache \cup {i}
    /\ partial' = partial \ {i}
    /\ pc' = "process"
    /\ UNCHANGED <<args, resume, interactive, image_items, processed, i,
                   rows_to_write, ledger, xlsx, flushes, events, log_len0,
                   faults, runs>>

\* lines 621-627: _call_download raises and the loop sleeps; the file opened
\* at line 676 stays behind unless it could not be opened
DownloadAttemptFails ==
    /\ pc = "downloading"
    /\ MayAttempt(ret)
    /\ ret' = AttemptFailed(ret)
    /\ \E left_behind \in BOOLEAN :
          /\ cache' = IF left_behind THEN cache \cup {i} ELSE cache
          /\ partial' = IF left_behind THEN partial \cup {i} ELSE partial
    /\ UNCHANGED <<args, pc, resume, interactive, image_items, processed, i,
                   rows_to_write, ledger, xlsx, flushes, events, log_len0,
                   faults, runs>>

\* line 628 raises inside the try of line 932
DownloadGivesUp ==
    /\ pc = "downloading"
    /\ RetriesExhausted(ret)
    /\ ret' = [ret EXCEPT !.result = "raised"]
    /\ events' = Mark(i, {"raised"})
    /\ pc' = "log_error"
    /\ UNCHANGED <<args, resume, interactive, image_items, processed, i,
                   rows_to_write, ledger, xlsx, cache, partial, flushes,
                   log_len0, faults, runs>>

(***************************************************************************)
(* SpecRetry: one run from the loading of the reference vocabularies on,   *)
(* in which every attempt of a remote call may fail.  The list of items is *)
(* shorter than a batch, so the only flush is the final one.               *)
(***************************************************************************)
NextRetry ==
    \/ FetchAttemptOk
    \/ FetchAttemptFails
    \/ FetchGivesUp
    \/ StartRun(FALSE, FALSE, 1)
    \/ LoopNext
    \/ CheckCache
    \/ DownloadAttemptOk
    \/ DownloadAttemptFails
    \/ DownloadGivesUp
    \/ ProcessOk
    \/ AppendRow
    \/ LogOk
    \/ LogError
    \/ FinalFlushOk

SpecRetry == InitRetry /\ [][NextRetry]_vars

(***************************************************************************)
(* SpecResume: runs with --resume over the same ledger, output store and   *)
(* cache; a run may fail as above or be terminated from outside.           *)
(***************************************************************************)
InitResume == InitMain({NumItems})

NextResume ==
    \/ StartRun(TRUE, FALSE, MaxRuns)
    \/ LoopNext
    \/ DownloadOrCached
    \/ DownloadFails
    \/ ProcessOk
    \/ ProcessRaises
    \/ AppendRow
    \/ LogOk
    \/ FlushOk
    \/ FlushFails
    \/ ClearBuffer
    \/ LogError
    \/ FinalFlushOk
    \/ FinalFlushFails
    \/ Kill

SpecResume == InitResume /\ [][NextResume]_vars

(***************************************************************************)
(* What the claims about main() speak of.                                  *)
(***************************************************************************)
\* the ledger read at startup holds an ok entry of the file
OkAtStart(file_id) ==
    \E k \in 1..log_len0 : ledger[k].file_id = file_id /\ ledger[k].status = "ok"

\* the ledger read at startup holds entries of the file, none of them ok
OnlyErrorsAtStart(file_id) ==
    /\ \E k \in 1..log_len0 : ledger[k].file_id = file_id
    /\ ~OkAtStart(file_id)

OkInLedger(file_id) ==
    \E k \in 1..Len(ledger) : ledger[k].file_id = file_id /\ ledger[k].status = "ok"

\* the entries this run appended for the file with the given status
EntriesThisRun(file_id, status) ==
    {k \in (log_len0 + 1)..Len(ledger) :
        ledger[k].file_id = file_id /\ ledger[k].status = status}

InBuffer(file_id) ==
    \E k \in 1..Len(rows_to_write) : rows_to_write[k].FILE_NAME = file_id

RowsInStore(file_id) == {k \in 1..Len(xlsx) : xlsx[k].FILE_NAME = file_id}

InStore(file_id) == RowsInStore(file_id) # {}

\* the loop is done with the item: it is past it, or between two items
LoopPast(file_id) ==
    \/ i > file_id
    \/ i = file_id /\ pc \in {"loop", "final_flush", "done", "crashed"}

ProcessEnded == pc \in {"done", "crashed"}

\* the run was ended by an error of the item the loop was at
RunEndedByItemError == pc = "crashed" /\ i >= 1 /\ "fatal" \in events[i]

(***************************************************************************)
(* C1: in a run started with --resume, an item the loop has come to was    *)
(* skipped (no download, no processing, no new ledger entry, no buffered   *)
(* row) if and only if the ledger read at startup holds an ok entry of its *)
(* file id; an item with error entries only, or with none, is attempted.   *)
(***************************************************************************)
ResumeSkipsExactlyOkItems ==
    (runs > 0 /\ resume) =>
        LET okAtStart == {ledger[k].file_id :
                             k \in {j \in 1..log_len0 : ledger[j].status = "ok"}}
            loggedNow == {ledger[k].file_id : k \in (log_len0 + 1)..Len(ledger)}
            buffered  == {rows_to_write[k].FILE_NAME : k \in 1..Len(rows_to_write)}
        IN  \A id \in 1..image_items :
                /\ events[id] # {} => ("skip" \in events[id] <=> id \in okAtStart)
                /\ "skip" \in events[id] =>
                      /\ events[id] = {"skip"}
                      /\ id \notin loggedNow
                      /\ id \notin buffered
                /\ (events[id] # {} /\ id \notin okAtStart) => "try" \in events[id]
                /\ (LoopPast(id) /\ id \notin okAtStart) =>
                      (events[id] \cap {"download", "cached"}) # {}

\* a resumed run skipped an item with an ok entry and processed again an
\* item that had only an error entry
ResumeSkippedOneRetriedOther ==
    /\ runs = 2
    /\ resume
    /\ \E a, b \in 1..image_items :
          /\ "skip" \in events[a]
          /\ OnlyErrorsAtStart(b)
          /\ "process" \in events[b]

(***************************************************************************)
(* C2: once a resumed run has finished, every item with an ok ledger entry *)
(* has at least one row in the output store, and no item was skipped on    *)
(* resume whose row was never flushed.                                     *)
(***************************************************************************)
EveryOkItemHasARow ==
    (runs > 0 /\ resume) =>
        \A id \in 1..image_items :
            /\ (pc = "done" /\ OkInLedger(id)) => InStore(id)
            /\ "skip" \in events[id] => InStore(id)

(***************************************************************************)
(* C3: over runs that all use --resume, the same ledger and the same       *)
(* output store, with terminations at any point, the output store never    *)
(* holds more than one row of the same item.                               *)
(***************************************************************************)
NoDuplicateRowsAcrossResumedRuns ==
    Cardinality({xlsx[k].FILE_NAME : k \in 1..Len(xlsx)}) = Len(xlsx)

\* the second run added its rows to those an earlier run had flushed
StoreFilledByTwoRuns ==
    /\ runs = 2
    /\ pc = "done"
    /\ Len(flushes) = 1
    /\ Len(xlsx) > flushes[1]

(***************************************************************************)
(* C4: every record that was appended to the buffer is still in the buffer *)
(* or is in the output store, also after a flush that failed, inside the   *)
(* loop or at the end of the run.                                          *)
(***************************************************************************)
BufferedRecordsNeverDropped ==
    \A id \in 1..image_items :
        "append" \in events[id] => (InBuffer(id) \/ InStore(id))

CeilDiv(a, b) == (a + b - 1) \div b

(***************************************************************************)
(* C5: when nothing fails the run flushes exactly when the buffer reaches  *)
(* 25 rows and once more at the end if rows are left: k items give         *)
(* ceil(k/25) flushes, all but the last of 25 rows; 30 items give two      *)
(* flushes of 25 and 5 rows.                                               *)
(***************************************************************************)
FlushesEveryBatchSize ==
    /\ \A k \in 1..Len(flushes) : k < Len(flushes) => flushes[k] = BatchSize
    /\ pc # "done" => \A k \in 1..Len(flushes) : flushes[k] = BatchSize
    /\ pc = "flush" => Len(rows_to_write) = BatchSize
    /\ pc \in {"loop", "download", "process", "append", "final_flush"} =>
          Len(rows_to_write) < BatchSize
    /\ (Running /\ pc # "clear") =>
          /\ BatchSize * Len(flushes) + Len(rows_to_write) =
                Cardinality({id \in 1..image_items : "append" \in events[id]})
          /\ Len(xlsx) = BatchSize * Len(flushes)
    /\ pc = "done" =>
          /\ Len(flushes) = CeilDiv(image_items, BatchSize)
          /\ flushes[Len(flushes)] = image_items - BatchSize * (Len(flushes) - 1)
          /\ Len(xlsx) = image_items
    /\ (pc = "done" /\ image_items = 30) => flushes = <<25, 5>>

ThirtyItemsTwoFlushes ==
    /\ pc = "done"
    /\ image_items = 30
    /\ flushes = <<25, 5>>

(***************************************************************************)
(* C6: when the download or the processing of an item raises, an error     *)
(* entry is appended for the item, no row of it reaches the buffer, and    *)
(* the later items are still attempted: the run ends only after the last   *)
(* item of the list.                                                       *)
(***************************************************************************)
ItemErrorIsolated ==
    \A id \in 1..image_items :
        /\ "raised" \in events[id] =>
              /\ "append" \notin events[id]
              /\ ~InBuffer(id)
              /\ ~InStore(id)
              /\ EntriesThisRun(id, "ok") = {}
              /\ LoopPast(id) => Cardinality(EntriesThisRun(id, "error")) = 1
        /\ ProcessEnded => events[id] # {}
        /\ ProcessEnded => i = image_items

\* an item raised and the run went on to complete the next one
ErrorThenNextItemProcessed ==
    /\ pc = "done"
    /\ \E id \in 1..(image_items - 1) :
          "raised" \in events[id] /\ "ok" \in events[id + 1]

(***************************************************************************)
(* C7: in an interactive run a no at the final confirmation aborts the     *)
(* record: the item gets an error entry and no ok entry in that run, no    *)
(* row of it reaches the buffer or the output store, and the run goes on   *)
(* with the next item.                                                     *)
(***************************************************************************)
DeclinedRecordAborted ==
    \A id \in 1..image_items :
        "declined" \in events[id] =>
            /\ interactive
            /\ "append" \notin events[id]
            /\ ~InBuffer(id)
            /\ ~InStore(id)
            /\ EntriesThisRun(id, "ok") = {}
            /\ LoopPast(id) => Cardinality(EntriesThisRun(id, "error")) = 1
            /\ ProcessEnded => \A later \in id..image_items : events[later] # {}

\* the operator declined an item and the run went on to complete the next one
DeclinedThenNextItemProcessed ==
    /\ pc = "done"
    /\ interactive
    /\ \E id \in 1..(image_items - 1) :
          "declined" \in events[id] /\ "ok" \in events[id + 1]

(***************************************************************************)
(* C13: when an error raised while an item is processed ends the run, the  *)
(* records that were in the buffer at that point have been flushed to the  *)
(* output store before the process ends.                                   *)
(***************************************************************************)
BufferFlushedBeforeAbort ==
    RunEndedByItemError =>
        \A id \in 1..image_items : "append" \in events[id] => InStore(id)

(***************************************************************************)
(* C17: a remote call is attempted at most 4 times when it fetches a       *)
(* reference list and at most 5 times when it is a cloud-storage call; a   *)
(* call that returned made exactly one attempt that did not fail, its      *)
(* last; a call raises only after all its attempts failed.  The raise of a *)
(* reference-list fetch ends the run before any item is attempted and      *)
(* before anything is written; the raise of a download gives that item one *)
(* error entry and no ok entry, and the run goes on to the last item.      *)
(***************************************************************************)
RetryBoundedAndSurfaced ==
    /\ ret.fn = "_fetch_json" => ret.attempts <= 4
    /\ ret.fn = "_drive_call_with_retry" => ret.attempts <= 5
    /\ ret.result = "returned" => ret.attempts = ret.failed + 1
    /\ ret.result = "raised" =>
          /\ ret.failed = ret.attempts
          /\ ret.fn = "_fetch_json" => ret.failed = 4
          /\ ret.fn = "_drive_call_with_retry" => ret.failed = 5
    /\ ret.result = "pending" => ret.failed = ret.attempts
    /\ (ret.fn = "_fetch_json" /\ ret.result = "raised") <=> pc = "fatal"
    /\ pc = "fatal" =>
          /\ runs = 0
          /\ ledger = <<>>
          /\ xlsx = <<>>
          /\ \A id \in 1..image_items : events[id] = {}
          /\ ~ENABLED NextRetry
    /\ \A id \in 1..image_items :
          /\ "raised" \in events[id] =>
                /\ EntriesThisRun(id, "ok") = {}
                /\ LoopPast(id) => Cardinality(EntriesThisRun(id, "error")) = 1
          /\ pc = "done" => events[id] # {}

\* the fifth attempt of a download failed and the error is about to be
\* logged for the item, after a first item whose download succeeded on a
\* later attempt
DownloadGaveUpAfterFiveAttempts ==
    /\ pc = "log_error"
    /\ ret.fn = "_drive_call_with_retry"
    /\ ret.result = "raised"
    /\ ret.failed = 5
    /\ i > 1
    /\ "ok" \in events[1]

(***************************************************************************)
(* C18: every item the loop of a run is done with has exactly one ledger   *)
(* entry of that run, and no item has an ok entry and an error entry of    *)
(* the same run, also when the batch flush that follows the ok entry of    *)
(* the item raises.                                                        *)
(***************************************************************************)
OneLedgerEntryPerAttemptedItem ==
    \A id \in 1..image_items :
        /\ ~(EntriesThisRun(id, "ok") # {} /\ EntriesThisRun(id, "error") # {})
        /\ (LoopPast(id) /\ events[id] # {}) =>
              Cardinality(EntriesThisRun(id, "ok") \cup EntriesThisRun(id, "error")) = 1

(***************************************************************************)
(* C19: the cache holds a file only if its download completed: no partial  *)
(* file is in the cache, an item whose download failed on every retry in   *)
(* this run has no file in the cache, and no run takes a partial file for  *)
(* a cached one.                                                           *)
(***************************************************************************)
CacheHoldsOnlyCompletedDownloads ==
    /\ partial \cap cache = {}
    /\ \A id \in 1..image_items :
          /\ ({"download", "raised"} \subseteq events[id]) => id \notin cache
          /\ "cached" \in events[id] => id \notin partial

====
